---- MODULE Spec2Model ----
(***************************************************************************)
(* Model of airootfs/root/install-me.py: the Custom-Archlinux installer.   *)
(* Strings the program inspects (prefix tests, strip, lower, splitlines)   *)
(* are sequences of one-character strings; strings it only passes along    *)
(* are TLA+ strings.                                                       *)
(***************************************************************************)
EXTENDS Integers, Sequences, FiniteSets, TLC

VARIABLES pc, exc, euid, blockdevices, devices, selected, reason, prompts,
          trace, bootctl_cmds, loader_prior, loader_conf

vars == <<pc, exc, euid, blockdevices, devices, selected, reason, prompts,
          trace, bootctl_cmds, loader_prior, loader_conf>>

(* ------------------------------ bounds --------------------------------- *)
MaxDevs == 3
MaxSize == 2
MaxBlk == 1
MaxLines == 1

(* --------------------------- string helpers ---------------------------- *)
S_nvme == <<"n", "v", "m", "e">>
S_sata == <<"s", "a", "t", "a">>
S_disk == <<"d", "i", "s", "k">>
S_loop == <<"l", "o", "o", "p">>
S_dev == <<"/", "d", "e", "v", "/">>
S_dev_nvme == S_dev \o S_nvme
S_sd == <<"s", "d">>
Digit(i) == <<CASE i = 0 -> "0" [] i = 1 -> "1" [] i = 2 -> "2" [] i = 3 -> "3"
                [] i = 4 -> "4" [] OTHER -> "5">>

StartsWith(s, p) == Len(s) >= Len(p) /\ SubSeq(s, 1, Len(p)) = p

IsSpace(c) == c \in {" ", "\t", "\n"}

RECURSIVE LStrip(_)
LStrip(s) == IF s # <<>> /\ IsSpace(Head(s)) THEN LStrip(Tail(s)) ELSE s

RECURSIVE RStrip(_)
RStrip(s) == IF s # <<>> /\ IsSpace(s[Len(s)]) THEN RStrip(SubSeq(s, 1, Len(s) - 1)) ELSE s

Strip(s) == RStrip(LStrip(s))

LowerChar(c) == CASE c = "Y" -> "y" [] c = "N" -> "n" [] c = "D" -> "d"
                  [] c = "V" -> "v" [] c = "M" -> "m" [] c = "E" -> "e"
                  [] c = "S" -> "s" [] c = "K" -> "k" [] c = "I" -> "i"
                  [] OTHER -> c

Lower(s) == [i \in 1..Len(s) |-> LowerChar(s[i])]

(* ------------------------ _select_target_device ------------------------ *)
NoDevice == [name |-> <<>>, path |-> <<>>, size |-> 0, rota |-> 1,
             model |-> <<>>, tran |-> <<>>]

IsNvme_TranOnly(d) == d.tran = S_nvme

IsNvme(d) == d.tran = S_nvme \/ StartsWith(d.path, S_dev_nvme)

nvmes(devs) == SelectSeq(devs, IsNvme)

IsSsd_Inverted(d) == d.rota = 1

IsSsd(d) == d.rota = 0

ssds(devs) == SelectSeq(devs, IsSsd)

\* max(seq, key=size): the first element whose key is not exceeded later
RECURSIVE MaxFold(_, _)
MaxFold(best, rest) ==
    IF rest = <<>> THEN best
    ELSE MaxFold(IF Head(rest).size > best.size THEN Head(rest) ELSE best, Tail(rest))

RECURSIVE MaxFoldLast(_, _)
MaxFoldLast(best, rest) ==
    IF rest = <<>> THEN best
    ELSE MaxFoldLast(IF Head(rest).size >= best.size THEN Head(rest) ELSE best, Tail(rest))

MaxBySize_Last(seq) == MaxFoldLast(Head(seq), Tail(seq))

MaxBySize(seq) == MaxFold(Head(seq), Tail(seq))

Fallback_First(devs) == Head(devs)

Fallback(devs) == MaxBySize(devs)

\* defined for non-empty devs; on an empty list max() raises ValueError
_select_target_device(devs) ==
    IF nvmes(devs) # <<>>
    THEN [chosen |-> MaxBySize(nvmes(devs)), reason |-> "NVMe drive"]
    ELSE IF ssds(devs) # <<>>
    THEN [chosen |-> MaxBySize(ssds(devs)), reason |-> "SSD (non-rotational) drive"]
    ELSE [chosen |-> Fallback(devs), reason |-> "largest available disk"]

(* ------------------------- _list_block_devices ------------------------- *)
\* JSON values of the lsblk output: null, booleans, numbers, strings
JNull == [t |-> "null", b |-> FALSE, n |-> 0, s |-> <<>>]
JBool(x) == [t |-> "bool", b |-> x, n |-> 0, s |-> <<>>]
JNum(x) == [t |-> "num", b |-> FALSE, n |-> x, s |-> <<>>]
JStr(x) == [t |-> "str", b |-> FALSE, n |-> 0, s |-> x]

\* Python truthiness of a JSON value
Truthy(v) == CASE v.t = "null" -> FALSE
               [] v.t = "bool" -> v.b
               [] v.t = "num" -> v.n # 0
               [] OTHER -> v.s # <<>>

\* Python `v or dflt`
PyOr(v, dflt) == IF Truthy(v) THEN v ELSE dflt

DigitVal(c) == CASE c = "0" -> 0 [] c = "1" -> 1 [] c = "2" -> 2 [] c = "3" -> 3
                 [] c = "4" -> 4 [] c = "5" -> 5 [] c = "6" -> 6 [] c = "7" -> 7
                 [] c = "8" -> 8 [] OTHER -> 9

RECURSIVE ParseDigits(_, _)
ParseDigits(acc, s) == IF s = <<>> THEN acc
                       ELSE ParseDigits(10 * acc + DigitVal(Head(s)), Tail(s))

\* Python int() on a bool, a number or a string of digits
PyInt(v) == CASE v.t = "bool" -> (IF v.b THEN 1 ELSE 0)
              [] v.t = "num" -> v.n
              [] OTHER -> ParseDigits(0, v.s)

IsDiskType(b) == Lower(PyOr(b.type, JStr(<<>>)).s) = S_disk

\* the dict appended for one entry of "blockdevices" (lines 74-82)
DeviceOf(b) ==
    LET name == PyOr(b.name, JStr(<<>>)).s
    IN [name |-> name,
        path |-> PyOr(b.path, JStr(S_dev \o name)).s,
        size |-> PyInt(PyOr(b.size, JNum(0))),
        rota |-> PyInt(PyOr(b.rota, JNum(1))),
        model |-> Strip(PyOr(b.model, JStr(<<>>)).s),
        tran |-> Lower(Strip(PyOr(b.tran, JStr(<<>>)).s))]

RECURSIVE DiskDevices(_)
DiskDevices(bs) ==
    IF bs = <<>> THEN <<>>
    ELSE IF IsDiskType(Head(bs)) THEN <<DeviceOf(Head(bs))>> \o DiskDevices(Tail(bs))
    ELSE DiskDevices(Tail(bs))

\* out.ok = FALSE: lsblk exited non-zero, could not be run, or printed no JSON
_list_block_devices(out) == IF ~out.ok THEN <<>> ELSE DiskDevices(out.data)

(* ------------------------------ ask_yes_no ----------------------------- *)
AskEmptyIsNo(ans, default_yes) ==
    LET a == IF ans.eof THEN <<>> ELSE Strip(ans.text)
    IN StartsWith(Lower(a), <<"y">>)

\* ans.eof: input() raised EOFError
ask_yes_no(ans, default_yes) ==
    LET a == IF ans.eof THEN <<>> ELSE Strip(ans.text)
    IN IF a = <<>> THEN default_yes ELSE StartsWith(Lower(a), <<"y">>)

(* --------------------------- bootloader step --------------------------- *)
systemd_version == <<"2", "5", "7">>
S_258 == <<"2", "5", "8">>

\* Python string comparison a >= b (lexicographic by code point; digits only)
RECURSIVE StrGE(_, _)
StrGE(a, b) ==
    IF b = <<>> THEN TRUE
    ELSE IF a = <<>> THEN FALSE
    ELSE IF DigitVal(Head(a)) # DigitVal(Head(b)) THEN DigitVal(Head(a)) > DigitVal(Head(b))
    ELSE StrGE(Tail(a), Tail(b))

BootctlFirstFlags == IF StrGE(systemd_version, S_258) THEN "--variables=yes" ELSE ""

BootctlFallbackFlags == IF StrGE(systemd_version, S_258) THEN "--variables=no" ELSE "--no-variables"

(* ----------------------------- loader.conf ----------------------------- *)
S_default == <<"d", "e", "f", "a", "u", "l", "t">>
S_timeout == <<"t", "i", "m", "e", "o", "u", "t">>
S_hash_timeout == <<"#">> \o S_timeout
init_time == <<"T">>
default_kernel == <<"l", "i", "n", "u", "x">>
default_entry == init_time \o <<"_">> \o default_kernel \o <<".", "c", "o", "n", "f">>
default == S_default \o <<" ">> \o default_entry
L_timeout15 == S_timeout \o <<" ", "1", "5">>

\* str.splitlines(): split at "\n", no empty last line
RECURSIVE SplitAcc(_, _, _)
SplitAcc(text, cur, acc) ==
    IF text = <<>> THEN (IF cur = <<>> THEN acc ELSE Append(acc, cur))
    ELSE IF Head(text) = "\n" THEN SplitAcc(Tail(text), <<>>, Append(acc, cur))
    ELSE SplitAcc(Tail(text), Append(cur, Head(text)), acc)

SplitLines(text) == SplitAcc(text, <<>>, <<>>)

\* '\n'.join(lines)
RECURSIVE JoinLines(_)
JoinLines(lines) ==
    IF lines = <<>> THEN <<>>
    ELSE IF Len(lines) = 1 THEN lines[1]
    ELSE lines[1] \o <<"\n">> \o JoinLines(Tail(lines))

RemovePrefixHash(line) == IF StartsWith(line, <<"#">>) THEN Tail(line) ELSE line

\* the loop body of lines 407-412
PatchLine(line) ==
    IF StartsWith(line, S_default) THEN default
    ELSE IF StartsWith(line, S_hash_timeout) THEN RemovePrefixHash(line)
    ELSE line

\* loader_data of lines 399-412
NewLoaderData(file) ==
    IF ~file.exists THEN <<default, L_timeout15>>
    ELSE LET old == SplitLines(file.text) IN [i \in 1..Len(old) |-> PatchLine(old[i])]

\* the file after loader_conf.write_text (line 414)
WriteLoaderConf(file) == [exists |-> TRUE, text |-> JoinLines(NewLoaderData(file)) \o <<"\n">>]

(* ------------------------------- inputs -------------------------------- *)
\* what lsblk prints for the i-th block device
RawEntry(i, kind, type, size, rota, tran) ==
    LET name == IF kind = "nvme" THEN S_nvme \o Digit(i) \o <<"n", "1">> ELSE S_sd \o Digit(i)
    IN [name |-> JStr(name), type |-> JStr(type), size |-> size, rota |-> rota,
        model |-> JStr(<<"Q", " ">>), path |-> JStr(S_dev \o name), tran |-> tran]

RawRota == {JBool(FALSE), JBool(TRUE), JStr(<<"0">>), JStr(<<"1">>), JNull}

\* entries of the installer run: disks and loop devices, any rota encoding
RawMain(i) ==
    {RawEntry(i, k, ty, JNum(1), r, IF k = "nvme" THEN JStr(S_nvme) ELSE JStr(S_sata)) :
        k \in {"nvme", "sd"}, ty \in {S_disk, S_loop}, r \in RawRota}

\* entries for the selector: disks only; c enumerates profile x size, the
\* profiles being NVMe by path and transport, NVMe by path only (no transport
\* reported), NVMe by transport only (rotational flag set), SATA SSD, SATA HDD
WideCount == 5 * (MaxSize + 1)

RawWide(i, c) ==
    LET prof == c % 5
        sz == JNum(c \div 5)
    IN CASE prof = 0 -> RawEntry(i, "nvme", S_disk, sz, JStr(<<"0">>), JStr(S_nvme))
         [] prof = 1 -> RawEntry(i, "nvme", S_disk, sz, JStr(<<"0">>), JNull)
         [] prof = 2 -> RawEntry(i, "sd", S_disk, sz, JBool(TRUE), JStr(S_nvme))
         [] prof = 3 -> RawEntry(i, "sd", S_disk, sz, JStr(<<"0">>), JStr(S_sata))
         [] OTHER -> RawEntry(i, "sd", S_disk, sz, JBool(TRUE), JStr(S_sata))

RECURSIVE WideList(_, _, _)
WideList(i, n, c) ==
    IF i > n THEN <<>>
    ELSE <<RawWide(i, c % WideCount)>> \o WideList(i + 1, n, c \div WideCount)

RECURSIVE Pow(_, _)
Pow(b, n) == IF n = 0 THEN 1 ELSE b * Pow(b, n - 1)

RECURSIVE MainLists(_)
MainLists(n) ==
    IF n = 0 THEN {<<>>}
    ELSE {Append(l, e) : l \in MainLists(n - 1), e \in RawMain(n)}

LsblkFailed == [ok |-> FALSE, data |-> <<>>]

LsblkMain == {LsblkFailed} \cup
             {[ok |-> TRUE, data |-> l] : l \in UNION {MainLists(n) : n \in 0..MaxBlk}}

EOFAnswer == [eof |-> TRUE, text |-> <<>>]
Typed(s) == [eof |-> FALSE, text |-> s]
Answers == {EOFAnswer, Typed(<<>>), Typed(<<"Y">>), Typed(<<"n">>)}

L_old_default == S_default \o <<" ", "x">>
L_hash_timeout == S_hash_timeout \o <<" ", "3">>
L_timeout5 == S_timeout \o <<" ", "5">>
L_editor == <<"e", "d", "i", "t", "o", "r", " ", "n", "o">>
LinePool == {L_old_default, L_hash_timeout, L_timeout5, L_editor}

AbsentFile == [exists |-> FALSE, text |-> <<>>]

RECURSIVE LineLists(_)
LineLists(n) == IF n = 0 THEN {<<>>}
                ELSE {Append(l, e) : l \in LineLists(n - 1), e \in LinePool}

\* loader.conf as found by the loader step: absent, empty, or up to MaxLines lines
PriorFiles == {AbsentFile} \cup {[exists |-> TRUE, text |-> <<>>]} \cup
              {[exists |-> TRUE, text |-> JoinLines(l) \o <<"\n">>] :
                  l \in UNION {LineLists(n) : n \in 1..MaxLines}}

(* -------------------------------- main --------------------------------- *)
Raise(e) == pc' = "aborted" /\ exc' = e

Init ==
    /\ pc = "start"
    /\ exc = ""
    /\ euid \in {0, 1000}
    /\ blockdevices = LsblkFailed
    /\ devices = <<>>
    /\ selected = NoDevice
    /\ reason = ""
    /\ prompts = <<>>
    /\ trace = <<>>
    /\ bootctl_cmds = <<>>
    /\ loader_prior = AbsentFile
    /\ loader_conf = AbsentFile

\* ensure_root (lines 31-34, 247)
EnsureRoot ==
    /\ pc = "start"
    /\ IF euid = 0
       THEN pc' = "enumerate" /\ UNCHANGED <<exc, euid, trace>>
       ELSE \E outcome \in {"root", "denied", "oserror"} :
              /\ trace' = Append(trace, "sudo")
              /\ CASE outcome = "root" -> pc' = "start" /\ euid' = 0 /\ UNCHANGED exc
                   [] outcome = "denied" -> pc' = "exited" /\ UNCHANGED <<exc, euid>>
                   [] OTHER -> Raise("OSError") /\ UNCHANGED euid
    /\ UNCHANGED <<blockdevices, devices, selected, reason, prompts, bootctl_cmds,
                   loader_prior, loader_conf>>

NoDevices_Never(devs) == FALSE

\* `not devices` (line 254)
NoDevices(devs) == devs = <<>>

\* lines 253-255
Enumerate ==
    /\ pc = "enumerate"
    /\ \E out \in LsblkMain :
         /\ blockdevices' = out
         /\ devices' = _list_block_devices(out)
    /\ trace' = Append(trace, "enumerate")
    /\ IF NoDevices(devices')
       THEN Raise("ValueError")
       ELSE pc' = "select" /\ UNCHANGED exc
    /\ UNCHANGED <<euid, selected, reason, prompts, bootctl_cmds, loader_prior, loader_conf>>

\* lines 257-265
Select ==
    /\ pc = "select"
    /\ trace' = Append(trace, "select")
    /\ IF devices = <<>>
       THEN Raise("ValueError") /\ UNCHANGED <<selected, reason>>
       ELSE /\ selected' = _select_target_device(devices).chosen
            /\ reason' = _select_target_device(devices).reason
            /\ pc' = "confirm"
            /\ UNCHANGED exc
    /\ UNCHANGED <<euid, blockdevices, devices, prompts, bootctl_cmds, loader_prior, loader_conf>>

DropToShell_Returns == pc' = "get_device" /\ UNCHANGED exc

\* drop_to_shell (lines 36-38): execv replaces the process or raises OSError
DropToShell ==
    \E replaced \in BOOLEAN :
        IF replaced THEN pc' = "shell" /\ UNCHANGED exc ELSE Raise("OSError")

\* lines 267-268
Confirm ==
    /\ pc = "confirm"
    /\ \E ans \in Answers :
         LET yes == ask_yes_no(ans, TRUE)
         IN /\ prompts' = Append(prompts, [prompt |-> "Run installation now?",
                                           ans |-> ans, result |-> yes])
            /\ trace' = Append(trace, IF yes THEN "confirm_yes" ELSE "confirm_no")
            /\ IF yes THEN pc' = "get_device" /\ UNCHANGED exc ELSE DropToShell
    /\ UNCHANGED <<euid, blockdevices, devices, selected, reason, bootctl_cmds,
                   loader_prior, loader_conf>>

\* lines 270-278
GetDevice ==
    /\ pc = "get_device"
    /\ trace' = Append(trace, "get_device")
    /\ \E found \in BOOLEAN :
         IF found THEN pc' = "partition" /\ UNCHANGED exc ELSE Raise("ValueError")
    /\ UNCHANGED <<euid, blockdevices, devices, selected, reason, prompts, bootctl_cmds,
                   loader_prior, loader_conf>>

\* lines 280-324: wipe, partition table, perform_filesystem_operations
Partition ==
    /\ pc = "partition"
    /\ trace' = Append(trace, "partition")
    /\ \E ok \in BOOLEAN :
         IF ok THEN pc' = "install" /\ UNCHANGED exc ELSE Raise("DiskError")
    /\ UNCHANGED <<euid, blockdevices, devices, selected, reason, prompts, bootctl_cmds,
                   loader_prior, loader_conf>>

\* lines 326-355: mount, minimal_installation, set_mirrors, strap efibootmgr
BaseInstall ==
    /\ pc = "install"
    /\ trace' = Append(trace, "install")
    /\ \E ok \in BOOLEAN :
         IF ok THEN pc' = "firmware" /\ UNCHANGED exc ELSE Raise("InstallError")
    /\ UNCHANGED <<euid, blockdevices, devices, selected, reason, prompts, bootctl_cmds,
                   loader_prior, loader_conf>>

\* lines 357-363
CheckFirmware ==
    /\ pc = "firmware"
    /\ \E has_uefi \in BOOLEAN, efi_partition \in {"none", "unmounted", "mounted"} :
         IF ~has_uefi THEN Raise("HardwareIncompatibilityError")
         ELSE IF efi_partition # "mounted" THEN Raise("ValueError")
         ELSE pc' = "bootctl" /\ UNCHANGED exc
    /\ UNCHANGED <<euid, blockdevices, devices, selected, reason, prompts, trace,
                   bootctl_cmds, loader_prior, loader_conf>>

\* lines 369-376: the try block
BootctlInstall ==
    /\ pc = "bootctl"
    /\ \E ok \in BOOLEAN :
         /\ bootctl_cmds' = Append(bootctl_cmds, [flags |-> BootctlFirstFlags, ok |-> ok])
         /\ pc' = IF ok THEN "loader" ELSE "bootctl_fallback"
    /\ UNCHANGED <<exc, euid, blockdevices, devices, selected, reason, prompts, trace,
                   loader_prior, loader_conf>>

FallbackFailed_Ignored(ok) == FALSE

\* SysCommand raises SysCallError on failure; nothing catches it here
FallbackFailed(ok) == ~ok

\* lines 377-382: the except block
BootctlFallback ==
    /\ pc = "bootctl_fallback"
    /\ \E ok \in BOOLEAN :
         /\ bootctl_cmds' = Append(bootctl_cmds, [flags |-> BootctlFallbackFlags, ok |-> ok])
         /\ IF FallbackFailed(ok) THEN Raise("SysCallError")
            ELSE pc' = "loader" /\ UNCHANGED exc
    /\ UNCHANGED <<euid, blockdevices, devices, selected, reason, prompts, trace,
                   loader_prior, loader_conf>>

\* lines 384-416
LoaderConf ==
    /\ pc = "loader"
    /\ \E prior \in PriorFiles, bls_ok \in BOOLEAN :
         /\ loader_prior' = prior
         /\ IF bls_ok
            THEN /\ loader_conf' = WriteLoaderConf(prior)
                 /\ trace' = Append(trace, "loader_conf")
                 /\ pc' = "users"
                 /\ UNCHANGED exc
            ELSE /\ loader_conf' = prior
                 /\ UNCHANGED trace
                 /\ Raise("BlsError")
    /\ UNCHANGED <<euid, blockdevices, devices, selected, reason, prompts, bootctl_cmds>>

\* lines 418-420
CreateUsers ==
    /\ pc = "users"
    /\ trace' = Append(trace, "users")
    /\ \E ok \in BOOLEAN :
         IF ok THEN pc' = "profile" /\ UNCHANGED exc ELSE Raise("SysCallError")
    /\ UNCHANGED <<euid, blockdevices, devices, selected, reason, prompts, bootctl_cmds,
                   loader_prior, loader_conf>>

\* lines 422-423
InstallProfile ==
    /\ pc = "profile"
    /\ trace' = Append(trace, "profile")
    /\ \E ok \in BOOLEAN :
         IF ok THEN pc' = "ask_reboot" /\ UNCHANGED exc ELSE Raise("SysCallError")
    /\ UNCHANGED <<euid, blockdevices, devices, selected, reason, prompts, bootctl_cmds,
                   loader_prior, loader_conf>>

\* lines 425-429
AskReboot ==
    /\ pc = "ask_reboot"
    /\ \E ans \in Answers :
         LET yes == ask_yes_no(ans, FALSE)
         IN /\ prompts' = Append(prompts, [prompt |-> "Installation complete. Reboot now?",
                                           ans |-> ans, result |-> yes])
            /\ IF yes
               THEN \E replaced \in BOOLEAN :
                       IF replaced THEN pc' = "reboot" /\ UNCHANGED exc ELSE Raise("OSError")
               ELSE DropToShell
    /\ UNCHANGED <<euid, blockdevices, devices, selected, reason, trace, bootctl_cmds,
                   loader_prior, loader_conf>>

Next ==
    \/ EnsureRoot
    \/ Enumerate
    \/ Select
    \/ Confirm
    \/ GetDevice
    \/ Partition
    \/ BaseInstall
    \/ CheckFirmware
    \/ BootctlInstall
    \/ BootctlFallback
    \/ LoaderConf
    \/ CreateUsers
    \/ InstallProfile
    \/ AskReboot

Spec == Init /\ [][Next]_vars

\* main just after a successful enumeration of up to MaxDevs disks
InitSelect ==
    /\ pc = "select"
    /\ exc = ""
    /\ euid = 0
    /\ \E n \in 1..MaxDevs : \E c \in 0..(Pow(WideCount, n) - 1) :
         /\ blockdevices = [ok |-> TRUE, data |-> WideList(1, n, c)]
         /\ devices = _list_block_devices(blockdevices)
    /\ selected = NoDevice
    /\ reason = ""
    /\ prompts = <<>>
    /\ trace = <<"enumerate">>
    /\ bootctl_cmds = <<>>
    /\ loader_prior = AbsentFile
    /\ loader_conf = AbsentFile

NextSelect == Select

SpecSelect == InitSelect /\ [][NextSelect]_vars

(* ------------------------------ properties ----------------------------- *)
Did(e) == \E i \in DOMAIN trace : trace[i] = e
Pos(e) == CHOOSE i \in DOMAIN trace : trace[i] = e
Before(a, b) == Did(b) => (Did(a) /\ Pos(a) < Pos(b))

Idx == DOMAIN devices
NvmeDev(d) == d.tran = <<"n", "v", "m", "e">> \/
              (Len(d.path) >= 9 /\ SubSeq(d.path, 1, 9) = <<"/", "d", "e", "v", "/", "n", "v", "m", "e">>)
NvmeIdx == {i \in Idx : NvmeDev(devices[i])}
SsdIdx == {i \in Idx : devices[i].rota = 0}
Returned == pc = "confirm"
LargestOf(S) == selected \in {devices[i] : i \in S} /\ \A i \in S : devices[i].size <= selected.size

\* C1: when the list holds an NVMe device (transport "nvme" or path under
\* /dev/nvme), the selector returns the largest NVMe device with reason
\* "NVMe drive", whatever the other devices are.
C1_NvmeFirst ==
    (Returned /\ NvmeIdx # {}) => (reason = "NVMe drive" /\ LargestOf(NvmeIdx))

C1_Witness ==
    /\ Returned /\ reason = "NVMe drive"
    /\ \E i \in Idx \ NvmeIdx : devices[i].size > selected.size /\ devices[i].rota = 0
    /\ \E i \in NvmeIdx : devices[i].size < selected.size

\* C2: with no NVMe device but some non-rotational device, the selector returns
\* the largest non-rotational device with reason "SSD (non-rotational) drive",
\* even when a rotational device is larger.
C2_SsdSecond ==
    (Returned /\ NvmeIdx = {} /\ SsdIdx # {}) =>
        (reason = "SSD (non-rotational) drive" /\ LargestOf(SsdIdx))

C2_Witness ==
    /\ Returned /\ NvmeIdx = {} /\ reason = "SSD (non-rotational) drive"
    /\ \E i \in Idx \ SsdIdx : devices[i].size > selected.size
    /\ \E i \in SsdIdx : devices[i].size < selected.size

\* C3: when every device is rotational and none is NVMe, the selector returns
\* the largest device of the whole list with reason "largest available disk".
C3_LargestLast ==
    (Returned /\ NvmeIdx = {} /\ SsdIdx = {}) =>
        (reason = "largest available disk" /\ LargestOf(Idx))

C3_Witness ==
    /\ Returned /\ NvmeIdx = {} /\ SsdIdx = {} /\ reason = "largest available disk"
    /\ Len(devices) >= 2
    /\ devices[1].size < selected.size

WinningTier == IF NvmeIdx # {} THEN NvmeIdx ELSE IF SsdIdx # {} THEN SsdIdx ELSE Idx

\* C8: on a non-empty list the selector returns exactly one element of the
\* list, leaves the list as enumerated, and among the devices of the winning
\* tier that share the maximal size returns the first in input order.
C8_FirstMaxOfInput ==
    Returned =>
        /\ devices = _list_block_devices(blockdevices)
        /\ \E i \in WinningTier :
             /\ devices[i] = selected
             /\ \A j \in WinningTier :
                  devices[j].size < devices[i].size \/ (devices[j].size = devices[i].size /\ j >= i)

C8_Witness ==
    /\ Returned
    /\ \E i, j \in WinningTier :
         i < j /\ devices[i] = selected /\ devices[j].size = selected.size /\ devices[j] # selected

ReportedNonRotational(v) == v = JBool(FALSE) \/ v = JStr(<<"0">>) \/ v = JNum(0)
ReportedRotational(v) == v = JBool(TRUE) \/ v = JStr(<<"1">>) \/ v = JNum(1)
DiskEntry(b) == b.type = JStr(<<"d", "i", "s", "k">>)
ReportedDisks == SelectSeq(blockdevices.data, DiskEntry)

\* C4: every disk-type device of the listing is returned with the rotational
\* flag as reported: 0 for a device reported non-rotational, 1 for a device
\* reported rotational, so a non-rotational non-NVMe disk is selected as SSD.
C4_RotaAsReported ==
    (Did("enumerate") /\ blockdevices.ok) =>
        /\ Len(devices) = Len(ReportedDisks)
        /\ \A k \in DOMAIN devices :
             /\ ReportedNonRotational(ReportedDisks[k].rota) => devices[k].rota = 0
             /\ ReportedRotational(ReportedDisks[k].rota) => devices[k].rota = 1
        /\ (Did("select") /\ NvmeIdx = {}
              /\ \E k \in DOMAIN ReportedDisks : ReportedNonRotational(ReportedDisks[k].rota))
           => reason = "SSD (non-rotational) drive"

\* C5: when enumeration yields no device (lsblk or its JSON failed, or no
\* disk-type device exists) main aborts before the selector, partitioning or
\* installation runs; the selector is never called with an empty list.
C5_EmptyAborts ==
    /\ (Did("enumerate") /\ devices = <<>>) =>
          /\ pc = "aborted" /\ exc = "ValueError"
          /\ ~Did("select") /\ ~Did("get_device") /\ ~Did("partition") /\ ~Did("install")
          /\ prompts = <<>>
    /\ Did("select") => devices # <<>>

C5_Witness ==
    /\ Did("enumerate") /\ devices = <<>> /\ pc = "aborted"
    /\ blockdevices.ok /\ blockdevices.data # <<>>

\* C6: a failed first bootctl install is followed by exactly one retry that
\* leaves the EFI variables alone; a failed retry is fatal and no later step
\* (loader.conf, users, profile) runs; there are never more than two attempts.
C6_OneRetry ==
    LET n == Len(bootctl_cmds)
    IN /\ n <= 2
       /\ (n >= 1 /\ bootctl_cmds[1].ok) => n = 1
       /\ (n >= 1 /\ ~bootctl_cmds[1].ok /\ pc # "bootctl_fallback") => n = 2
       /\ n = 2 => /\ ~bootctl_cmds[1].ok
                   /\ bootctl_cmds[1].flags = ""
                   /\ bootctl_cmds[2].flags = "--no-variables"
       /\ (n = 2 /\ ~bootctl_cmds[2].ok) =>
             /\ pc = "aborted" /\ exc = "SysCallError"
             /\ ~Did("loader_conf") /\ ~Did("users") /\ ~Did("profile")
             /\ loader_conf = AbsentFile

C6_Witness ==
    /\ Len(bootctl_cmds) = 2 /\ ~bootctl_cmds[2].ok /\ pc = "aborted"

NonInteractive(ans) == ans.eof \/ ans.text = <<>>

\* C7 as stated: every yes/no prompt answers "yes" on end-of-file or an
\* empty answer.
C7_AlwaysYes ==
    \A i \in DOMAIN prompts : NonInteractive(prompts[i].ans) => prompts[i].result

\* C7: on end-of-file or an empty answer "Run installation now?" answers yes
\* and "Installation complete. Reboot now?" answers no.
C7_PromptDefault ==
    \A i \in DOMAIN prompts :
        NonInteractive(prompts[i].ans) =>
            (prompts[i].result <=> prompts[i].prompt = "Run installation now?")

C7_Witness ==
    /\ Len(prompts) = 2
    /\ prompts[1].ans.eof /\ prompts[1].result
    /\ prompts[2].ans = Typed(<<>>) /\ ~prompts[2].result
    /\ pc = "shell"

WrittenLines == SplitLines(loader_conf.text)

\* C9: after the loader-configuration step loader.conf holds a line
\* `default <entry>` for the default kernel and a line `timeout <seconds>`,
\* whatever the file was before.
C9_BothDirectives ==
    Did("loader_conf") =>
        /\ loader_conf.exists
        /\ \E i \in DOMAIN WrittenLines :
             WrittenLines[i] = <<"d", "e", "f", "a", "u", "l", "t", " ">> \o default_entry
        /\ \E i \in DOMAIN WrittenLines :
             /\ Len(WrittenLines[i]) > 8
             /\ SubSeq(WrittenLines[i], 1, 8) = <<"t", "i", "m", "e", "o", "u", "t", " ">>

Destructive == {"get_device", "partition", "install", "loader_conf", "users", "profile"}

\* C10: nothing destructive and no installation step happens unless "Run
\* installation now?" was answered yes before it; after a no, control never
\* reaches the partitioning code; the order is enumerate, select, confirm,
\* partition.
C10_ConfirmBeforeDestroy ==
    /\ \A e \in Destructive : Before("confirm_yes", e)
    /\ (bootctl_cmds # <<>> \/ pc \in {"get_device", "partition", "install", "firmware",
                                       "bootctl", "loader", "users", "profile", "ask_reboot", "reboot"})
          => (Did("confirm_yes") /\ prompts[1].prompt = "Run installation now?" /\ prompts[1].result)
    /\ Did("confirm_no") =>
          /\ pc = "shell" \/ (pc = "aborted" /\ exc = "OSError")
          /\ trace[Len(trace)] = "confirm_no"
          /\ bootctl_cmds = <<>> /\ loader_conf = AbsentFile
    /\ ~(Did("confirm_yes") /\ Did("confirm_no"))
    /\ Before("enumerate", "select")
    /\ Before("select", "confirm_yes")
    /\ Before("select", "confirm_no")
    /\ Before("confirm_yes", "partition")

C10_Witness ==
    /\ Did("partition") /\ pc = "install"
    /\ trace[1] = "sudo"

====
